---- MODULE Spec2Model ----
(***************************************************************************)
(* Model of the statistical core of the Rubisco notebooks:                 *)
(*   notebooks/stats_utils.py  combine_dists, RubiscoKinetics              *)
(*   notebooks/power_laws.py   fit_power_law, fit_power_law_odr,           *)
(*                             bootstrap_power_law_odr, plot_bootstrapped_* *)
(*                                                                         *)
(* Floating point numbers are modelled as exact rationals extended with    *)
(* nan, +inf and -inf; Python's None is a value of its own.  A draw of     *)
(* numpy.random.normal(mean, std) is a choice among mean + z*std for z in  *)
(* ZScores.  Library calls that raise are modelled by their outcome        *)
(* ("raised", with the exception's type).                                  *)
(***************************************************************************)
EXTENDS Integers, Sequences, FiniteSets, TLC

VARIABLES kin, comb, fit, boot, plt

vars == <<kin, comb, fit, boot, plt>>

(***************************************************************************)
(* Bounds of the model.                                                    *)
(***************************************************************************)
\* largest number n of Monte Carlo samples drawn per distribution
MaxN == 2
\* longest means / stds list given to combine_dists
MaxDists == 2
\* longest log_xs / log_ys array given to fit_power_law
MaxLen == 3
\* longest xs / ys array given to bootstrap_power_law_odr
MaxPairs == 3
\* largest number of bootstrap rounds
MaxRounds == 2
\* longest bootstrap distribution given to the plotting functions
MaxDist == 3

(***************************************************************************)
(* Floats: exact rationals n/d (d > 0, lowest terms), nan, +inf, -inf.     *)
(***************************************************************************)
None == [k |-> "none"]
NaN == [k |-> "nan"]
PInf == [k |-> "pinf"]
NInf == [k |-> "ninf"]

Abs(i) == IF i < 0 THEN -i ELSE i

RECURSIVE GCD(_, _)
GCD(a, b) == IF b = 0 THEN a ELSE GCD(b, a % b)

Rat(n, d) ==
    LET s == IF d < 0 THEN -1 ELSE 1
        g == GCD(Abs(n), Abs(d))
    IN  [k |-> "fin", n |-> (s * n) \div g, d |-> (s * d) \div g]

Fin(i) == [k |-> "fin", n |-> i, d |-> 1]

\* sign of a float that is not nan: -1, 0 or 1
Sgn(a) ==
    CASE a.k = "pinf" -> 1
      [] a.k = "ninf" -> -1
      [] OTHER -> IF a.n > 0 THEN 1 ELSE IF a.n < 0 THEN -1 ELSE 0

Signed(s) == IF s > 0 THEN PInf ELSE IF s < 0 THEN NInf ELSE NaN

\* finite floats are the rationals and the symbolic values exp(a), sqrt(a)
np_isfinite(a) == a.k \in {"fin", "exp", "sroot"}

np_isnan(a) == a.k = "nan"

\* IEEE addition
FAdd(a, b) ==
    CASE a.k = "nan" \/ b.k = "nan" -> NaN
      [] a.k = "fin" /\ b.k = "fin" -> Rat(a.n * b.d + b.n * a.d, a.d * b.d)
      [] a.k = "fin" -> b
      [] b.k = "fin" -> a
      [] OTHER -> IF a.k = b.k THEN a ELSE NaN

\* IEEE multiplication
FMul(a, b) ==
    CASE a.k = "nan" \/ b.k = "nan" -> NaN
      [] a.k = "fin" /\ b.k = "fin" -> Rat(a.n * b.n, a.d * b.d)
      [] OTHER -> Signed(Sgn(a) * Sgn(b))

FNeg(a) == FMul(Fin(-1), a)

FSub(a, b) == FAdd(a, FNeg(b))

\* IEEE division; the zeros of the model are positive zeros
FDiv(a, b) ==
    CASE a.k = "nan" \/ b.k = "nan" -> NaN
      [] a.k = "fin" /\ b.k = "fin" ->
            IF b.n = 0 THEN Signed(Sgn(a)) ELSE Rat(a.n * b.d, a.d * b.n)
      [] a.k = "fin" -> Fin(0)
      [] b.k = "fin" -> IF Sgn(b) < 0 THEN Signed(-Sgn(a)) ELSE Signed(Sgn(a))
      [] OTHER -> NaN

\* a <= b for floats that are not nan
FLe(a, b) ==
    CASE a.k = "ninf" \/ b.k = "pinf" -> TRUE
      [] a.k = "pinf" \/ b.k = "ninf" -> FALSE
      [] OTHER -> a.n * b.d <= b.n * a.d

FLt(a, b) == FLe(a, b) /\ a # b

\* floor of a finite float, as an integer
Floor(a) == a.n \div a.d

HasNaN(s) == \E i \in 1..Len(s) : np_isnan(s[i])

\* the sequence s of non-nan floats in ascending order
RECURSIVE Sorted(_)
Sorted(s) ==
    IF Len(s) = 0 THEN <<>>
    ELSE LET i == CHOOSE i \in 1..Len(s) : \A j \in 1..Len(s) : FLe(s[i], s[j])
             rest == [j \in 1..(Len(s) - 1) |-> IF j < i THEN s[j] ELSE s[j + 1]]
         IN  <<s[i]>> \o Sorted(rest)

\* numpy.median of a one dimensional array; nan for an empty array
np_median(s) ==
    IF Len(s) = 0 \/ HasNaN(s) THEN NaN
    ELSE LET t == Sorted(s)
             m == Len(s) \div 2
         IN  IF Len(s) % 2 = 1 THEN t[m + 1]
             ELSE FDiv(FAdd(t[m], t[m + 1]), Fin(2))

\* numpy's linear interpolation between a and b at 0 <= g < 1
Lerp(a, b, g) ==
    IF FLt(g, Rat(1, 2)) THEN FAdd(a, FMul(FSub(b, a), g))
    ELSE FSub(b, FMul(FSub(b, a), FSub(Fin(1), g)))

\* numpy.percentile(s, q) for one percentile q in [0, 100], s not empty
Percentile1(s, q) ==
    IF HasNaN(s) THEN NaN
    ELSE LET t == Sorted(s)
             pos == FMul(FDiv(q, Fin(100)), Fin(Len(s) - 1))
             lo == Floor(pos)
             hi == IF lo + 1 < Len(s) THEN lo + 1 ELSE lo
         IN  IF lo = hi THEN t[lo + 1]
             ELSE Lerp(t[lo + 1], t[hi + 1], FSub(pos, Fin(lo)))

\* numpy.percentile(s, qs) for a list qs of percentiles: one value per entry
\* of qs, in the order of qs
np_percentile(s, qs) == [i \in 1..Len(qs) |-> Percentile1(s, qs[i])]

\* z scores a draw of numpy.random.normal may take
ZScores == {-1, 1}

\* the arrays numpy.random.normal(mean, std, n) may return (std >= 0)
np_random_normal(mean, std, n) ==
    {[i \in 1..n |-> FAdd(mean, FMul(Fin(z[i]), std))] : z \in [1..n -> ZScores]}

\* numpy.random.normal raises ValueError for a negative scale
ScaleError(std) == std.k = "fin" /\ std.n < 0

(***************************************************************************)
(* stats_utils.py: RubiscoKinetics.                                        *)
(* kin is the object: its eight measured fields, its six derived fields,   *)
(* args (the vO, vO_95CI arguments it was built with) and call (how the    *)
(* last infer() call ended: "constructed" before any call).                *)
(***************************************************************************)
\* a numpy array, as a value a field may hold
Arr(s) == [k |-> "array", v |-> s]

\* measured values and standard deviations a record may be built from
MeanVals == {NaN, Fin(1)}
SdVals == {PInf, Fin(-1), Fin(1)}
\* values the optional vO and vO_95CI arguments may take
VOVals == {None, Fin(1)}
VOCIVals == {None, Arr(<<Fin(0), Fin(2)>>)}

RubiscoKinetics(vC, vC_SD, KC, KC_SD, KO, KO_SD, S, S_SD, vO, vO_95CI) ==
    [vC |-> vC, vC_SD |-> vC_SD, KC |-> KC, KC_SD |-> KC_SD,
     KO |-> KO, KO_SD |-> KO_SD, S |-> S, S_SD |-> S_SD,
     vO |-> vO, vO_95CI |-> vO_95CI,
     kon_C |-> None, kon_C_95CI |-> None,
     kon_O |-> None, kon_O_95CI |-> None,
     args |-> [vO |-> vO, vO_95CI |-> vO_95CI],
     call |-> "constructed", exc |-> "none"]

from_kv(kv) ==
    RubiscoKinetics(kv.vC, kv.vC_SD, kv.KC, kv.KC_SD,
                    kv.KO, kv.KO_SD, kv.S, kv.S_SD, None, None)

\* has_carb with the checks of the standard deviations left out
has_carb_means_only(self) ==
    /\ np_isfinite(self.vC)
    /\ np_isfinite(self.KC)

has_carb(self) ==
    /\ np_isfinite(self.vC)
    /\ np_isfinite(self.vC_SD)
    /\ np_isfinite(self.KC)
    /\ np_isfinite(self.KC_SD)

\* has_all with the four oxygenation checks left out (a copy of has_carb)
has_all_carb_copy(self) ==
    /\ np_isfinite(self.vC)
    /\ np_isfinite(self.vC_SD)
    /\ np_isfinite(self.KC)
    /\ np_isfinite(self.KC_SD)

\* has_all with the four carboxylation checks left out
has_all_oxy_only(self) ==
    /\ np_isfinite(self.KO)
    /\ np_isfinite(self.KO_SD)
    /\ np_isfinite(self.S)
    /\ np_isfinite(self.S_SD)

has_all(self) ==
    /\ np_isfinite(self.vC)
    /\ np_isfinite(self.vC_SD)
    /\ np_isfinite(self.KC)
    /\ np_isfinite(self.KC_SD)
    /\ np_isfinite(self.KO)
    /\ np_isfinite(self.KO_SD)
    /\ np_isfinite(self.S)
    /\ np_isfinite(self.S_SD)

\* conf_range of infer
InferConfRange == <<Rat(5, 2), Rat(195, 2)>>

\* elementwise a / b and a * b of two arrays of the same length
DivArr(a, b) == [i \in 1..Len(a) |-> FDiv(a[i], b[i])]
MulArr(a, b) == [i \in 1..Len(a) |-> FMul(a[i], b[i])]

Raised(self, exc) == [self EXCEPT !.call = "raised", !.exc = exc]

\* the first branch of infer: the frames it may leave.  A frame is the
\* object, whether an exception is propagating, and the locals vC and KC
\* (bound tells whether they were assigned).
InferCarb(self, n) ==
    IF ~has_carb(self)
    THEN {[self |-> self, ok |-> TRUE, bound |-> FALSE, vC |-> <<>>, KC |-> <<>>]}
    ELSE IF ScaleError(self.vC_SD) \/ ScaleError(self.KC_SD)
    THEN {[self |-> Raised(self, "ValueError"), ok |-> FALSE, bound |-> FALSE,
           vC |-> <<>>, KC |-> <<>>]}
    ELSE {[self |-> [self EXCEPT
                        !.kon_C = np_median(DivArr(vC, KC)),
                        !.kon_C_95CI = Arr(np_percentile(DivArr(vC, KC), InferConfRange))],
           ok |-> TRUE, bound |-> TRUE, vC |-> vC, KC |-> KC] :
             vC \in np_random_normal(self.vC, self.vC_SD, n),
             KC \in np_random_normal(self.KC, self.KC_SD, n)}

\* the second branch of infer without its last two assignments
InferAll_no_kon_O(f, n) ==
    IF ~f.ok THEN {f.self}
    ELSE IF ~has_all(f.self) THEN {[f.self EXCEPT !.call = "returned", !.exc = "none"]}
    ELSE IF ScaleError(f.self.KO_SD) \/ ScaleError(f.self.S_SD)
    THEN {Raised(f.self, "ValueError")}
    ELSE IF ~f.bound THEN {Raised(f.self, "UnboundLocalError")}
    ELSE {LET vO_vals == DivArr(MulArr(KO, f.vC), MulArr(S, f.KC))
          IN  [f.self EXCEPT
                  !.vO = np_median(vO_vals),
                  !.vO_95CI = Arr(np_percentile(vO_vals, InferConfRange)),
                  !.call = "returned", !.exc = "none"] :
            KO \in np_random_normal(f.self.KO, f.self.KO_SD, n),
            S \in np_random_normal(f.self.S, f.self.S_SD, n)}

\* the second branch of infer, run in frame f: the objects it may leave
InferAll(f, n) ==
    IF ~f.ok THEN {f.self}
    ELSE IF ~has_all(f.self) THEN {[f.self EXCEPT !.call = "returned", !.exc = "none"]}
    ELSE IF ScaleError(f.self.KO_SD) \/ ScaleError(f.self.S_SD)
    THEN {Raised(f.self, "ValueError")}
    ELSE IF ~f.bound THEN {Raised(f.self, "UnboundLocalError")}
    ELSE {LET vO_vals == DivArr(MulArr(KO, f.vC), MulArr(S, f.KC))
              kon_O_vals == DivArr(f.vC, MulArr(S, f.KC))
          IN  [f.self EXCEPT
                  !.vO = np_median(vO_vals),
                  !.vO_95CI = Arr(np_percentile(vO_vals, InferConfRange)),
                  !.kon_O = np_median(kon_O_vals),
                  !.kon_O_95CI = Arr(np_percentile(kon_O_vals, InferConfRange)),
                  !.call = "returned", !.exc = "none"] :
            KO \in np_random_normal(f.self.KO, f.self.KO_SD, n),
            S \in np_random_normal(f.self.S, f.self.S_SD, n)}

\* the objects self.infer(n) may leave
infer(self, n) == UNION {InferAll(f, n) : f \in InferCarb(self, n)}

\* values of the variables of a component that is not running
KinIdle == [call |-> "idle"]
CombIdle == [pc |-> "idle"]
FitIdle == [pc |-> "idle"]
BootIdle == [pc |-> "idle"]
PltIdle == [pc |-> "idle"]

\* the key-value stores a record may be built from
KVs ==
    [vC : MeanVals, vC_SD : SdVals, KC : MeanVals, KC_SD : SdVals,
     KO : MeanVals, KO_SD : SdVals, S : MeanVals, S_SD : SdVals]

\* the object is built by from_kv, or by the constructor with vO, vO_95CI given
KinInit ==
    \E kv \in KVs :
        \/ kin = from_kv(kv)
        \/ \E vO \in VOVals, vO_95CI \in VOCIVals :
              kin = RubiscoKinetics(kv.vC, kv.vC_SD, kv.KC, kv.KC_SD,
                                    kv.KO, kv.KO_SD, kv.S, kv.S_SD, vO, vO_95CI)

\* one call kin.infer(n)
Infer ==
    /\ kin.call # "idle"
    /\ \E n \in 1..MaxN : kin' \in infer(kin, n)
    /\ UNCHANGED <<comb, fit, boot, plt>>

InitKin == KinInit /\ comb = CombIdle /\ fit = FitIdle /\ boot = BootIdle /\ plt = PltIdle
NextKin == Infer
SpecKin == InitKin /\ [][NextKin]_vars

(***************************************************************************)
(* Claims about RubiscoKinetics (checked under SpecKin).                   *)
(***************************************************************************)
CarbFinite(o) ==
    np_isfinite(o.vC) /\ np_isfinite(o.vC_SD) /\ np_isfinite(o.KC) /\ np_isfinite(o.KC_SD)

OxyFinite(o) ==
    np_isfinite(o.KO) /\ np_isfinite(o.KO_SD) /\ np_isfinite(o.S) /\ np_isfinite(o.S_SD)

BuiltWithoutVO(o) == o.args.vO = None /\ o.args.vO_95CI = None

\* the fields of the object proper (all but the record of the call)
Fields(o) ==
    <<o.vC, o.vC_SD, o.KC, o.KC_SD, o.KO, o.KO_SD, o.S, o.S_SD,
      o.vO, o.vO_95CI, o.kon_C, o.kon_C_95CI, o.kon_O, o.kon_O_95CI>>

\* C1: for a record built with vO unset whose vC, vC_SD, KC, KC_SD are finite
\* and one of KO, KO_SD, S, S_SD is not, after infer() returns kon_C and
\* kon_C_95CI are set and vO, vO_95CI, kon_O, kon_O_95CI are None.
C1_CarbOnly ==
    (kin.call = "returned" /\ BuiltWithoutVO(kin) /\ CarbFinite(kin) /\ ~OxyFinite(kin))
        => /\ kin.kon_C # None /\ kin.kon_C_95CI # None
           /\ kin.vO = None /\ kin.vO_95CI = None
           /\ kin.kon_O = None /\ kin.kon_O_95CI = None

C1_Witness ==
    /\ kin.call = "returned" /\ BuiltWithoutVO(kin)
    /\ CarbFinite(kin) /\ ~OxyFinite(kin)
    /\ kin.kon_C # None /\ kin.vO = None

\* C2: for a record whose eight measured fields are finite, after one infer()
\* call has returned all six derived fields are set.
C2_AllSet ==
    (kin.call = "returned" /\ CarbFinite(kin) /\ OxyFinite(kin))
        => /\ kin.kon_C # None /\ kin.kon_C_95CI # None
           /\ kin.vO # None /\ kin.vO_95CI # None
           /\ kin.kon_O # None /\ kin.kon_O_95CI # None

C2_Witness ==
    /\ kin.call = "returned" /\ CarbFinite(kin) /\ OxyFinite(kin)
    /\ BuiltWithoutVO(kin)
    /\ kin.vO # None /\ kin.kon_O_95CI # None

\* C3: when neither has_carb() nor has_all() holds, every infer() call
\* returns without an error and changes no field of the record, so the
\* derived fields that were unset stay unset however often it is called.
C3_NoOp ==
    [][~CarbFinite(kin) => (kin'.call = "returned" /\ Fields(kin') = Fields(kin))]_vars

C3_Witness ==
    /\ kin.call = "returned" /\ ~CarbFinite(kin) /\ OxyFinite(kin)
    /\ kin.kon_C = None /\ kin.kon_C_95CI = None
    /\ kin.vO = None /\ kin.vO_95CI = None
    /\ kin.kon_O = None /\ kin.kon_O_95CI = None

\* C10: has_all() implies has_carb(); from a record built by from_kv, kon_O
\* set implies vO set and kon_C set; and no infer() call resets a derived
\* field that is set to None.
C10_Order ==
    /\ [](has_all(kin) => has_carb(kin))
    /\ [](BuiltWithoutVO(kin) =>
            (kin.kon_O # None => (kin.vO # None /\ kin.kon_C # None)))
    /\ [][/\ kin.vO # None => kin'.vO # None
          /\ kin.vO_95CI # None => kin'.vO_95CI # None
          /\ kin.kon_C # None => kin'.kon_C # None
          /\ kin.kon_C_95CI # None => kin'.kon_C_95CI # None
          /\ kin.kon_O # None => kin'.kon_O # None
          /\ kin.kon_O_95CI # None => kin'.kon_O_95CI # None]_vars

C10_Witness ==
    /\ BuiltWithoutVO(kin) /\ has_all(kin) /\ has_carb(kin)
    /\ kin.call = "raised" /\ kin.kon_C # None /\ kin.kon_O = None

(***************************************************************************)
(* stats_utils.py: combine_dists.                                          *)
(* comb is one call: its arguments, then how it ended (pc), the pooled     *)
(* array (combined) and the pair it returned.                              *)
(***************************************************************************)
\* means and standard deviations a caller may pass
CombMeans == {Fin(0), Fin(2)}
CombStds == {Fin(-1), Fin(0), Fin(1)}

SeqsUpTo(S, m) == UNION {[1..len -> S] : len \in 0..m}

Min(a, b) == IF a < b THEN a ELSE b

\* zip(means, stds): as many pairs as the shorter argument has entries
zip(means, stds) == [i \in 1..Min(Len(means), Len(stds)) |-> <<means[i], stds[i]>>]

RECURSIVE SumArr(_)
SumArr(a) == IF Len(a) = 0 THEN Fin(0) ELSE FAdd(a[1], SumArr(Tail(a)))

\* numpy.mean of an array that is not empty
np_mean(a) == FDiv(SumArr(a), Fin(Len(a)))

\* square root of a finite float that is not negative: exact when it is
\* rational, else the symbolic value sgn * sqrt(of) with sgn = 1
FSqrt(a) ==
    IF \E r \in 0..a.n : \E q \in 1..a.d : r * r = a.n /\ q * q = a.d
    THEN LET r == CHOOSE r \in 0..a.n : r * r = a.n
             q == CHOOSE q \in 1..a.d : q * q = a.d
         IN  Rat(r, q)
    ELSE [k |-> "sroot", sgn |-> 1, of |-> a]

\* numpy.std of an array that is not empty (population standard deviation)
np_std(a) ==
    LET m == np_mean(a)
        sq == [i \in 1..Len(a) |-> FMul(FSub(a[i], m), FSub(a[i], m))]
    IN  FSqrt(np_mean(sq))

\* the lists l the loop of combine_dists may build from the pairs ps
RECURSIVE Blocks(_, _)
Blocks(ps, n) ==
    IF Len(ps) = 0 THEN {<<>>}
    ELSE {<<b>> \o rest : b \in np_random_normal(ps[1][1], ps[1][2], n),
                          rest \in Blocks(Tail(ps), n)}

\* numpy.hstack of a list of arrays that is not empty
RECURSIVE np_hstack(_)
np_hstack(l) == IF Len(l) = 0 THEN <<>> ELSE l[1] \o np_hstack(Tail(l))

\* the outcomes of combine_dists(means, stds, n)
combine_dists(means, stds, n) ==
    LET ps == zip(means, stds)
        call == [means |-> means, stds |-> stds, n |-> n]
    IN  IF \E i \in 1..Len(ps) : ScaleError(ps[i][2])
        THEN {[pc |-> "raised", exc |-> "ValueError", args |-> call]}
        ELSE IF Len(ps) = 0
        THEN {[pc |-> "raised", exc |-> "ValueError", args |-> call]}
        ELSE {[pc |-> "returned", args |-> call, combined |-> np_hstack(l),
               mean |-> np_mean(np_hstack(l)), std |-> np_std(np_hstack(l))] :
                 l \in Blocks(ps, n)}

CombInit ==
    \E means \in SeqsUpTo(CombMeans, MaxDists), stds \in SeqsUpTo(CombStds, MaxDists),
       n \in 1..MaxN :
        comb = [pc |-> "called", args |-> [means |-> means, stds |-> stds, n |-> n]]

\* the call runs to its end
Combine ==
    /\ comb.pc = "called"
    /\ comb' \in combine_dists(comb.args.means, comb.args.stds, comb.args.n)
    /\ UNCHANGED <<kin, fit, boot, plt>>

InitComb == CombInit /\ kin = KinIdle /\ fit = FitIdle /\ boot = BootIdle /\ plt = PltIdle
NextComb == Combine
SpecComb == InitComb /\ [][NextComb]_vars

\* C7: combine_dists requires len(means) = len(stds) >= 1 and pools exactly
\* len(means) * n samples, one block of n draws per pair; a call whose
\* arguments break the length requirement does not return a smaller pool.
C7_PoolsEveryMean ==
    comb.pc = "returned" =>
        /\ Len(comb.args.means) = Len(comb.args.stds)
        /\ Len(comb.args.means) >= 1
        /\ Len(comb.combined) = Len(comb.args.means) * comb.args.n

(***************************************************************************)
(* power_laws.py: fit_power_law and fit_power_law_odr.                     *)
(* fit is one call of either: the function (fn), its arguments, then how   *)
(* it ended (pc) and the tuple it returned.                                *)
(***************************************************************************)
\* entries of the log-scale arrays a caller may pass
LogXs == {NaN, Fin(0), Fin(1)}
LogYs == {PInf, Fin(0), Fin(1)}

\* a[mask]: the entries of a at the positions where mask is TRUE
RECURSIVE Select(_, _)
Select(a, mask) ==
    IF Len(a) = 0 THEN <<>>
    ELSE (IF mask[1] THEN <<a[1]>> ELSE <<>>) \o Select(Tail(a), Tail(mask))

\* mask = ~np.isnan(log_xs) & ~np.isnan(log_ys)
NanMask(log_xs, log_ys) ==
    [i \in 1..Len(log_xs) |-> ~np_isnan(log_xs[i]) /\ ~np_isnan(log_ys[i])]

\* mean of (a - mean(a)) * (b - mean(b)): an entry of np.cov(a, b, bias=1)
Cov(a, b) ==
    np_mean([i \in 1..Len(a) |-> FMul(FSub(a[i], np_mean(a)), FSub(b[i], np_mean(b)))])

\* the value -sqrt(a) or sqrt(a) of a finite float a >= 0, by the sign sg
SignedRoot(sg, a) ==
    LET rt == FSqrt(a)
    IN  IF rt.k = "fin" THEN FMul(Fin(sg), rt)
        ELSE [k |-> "sroot", sgn |-> sg, of |-> a]

\* the two-sided p-value of the t statistic of r with df degrees of freedom
\* (a value of the t distribution, kept symbolic)
TTestP(r, df) == [k |-> "t_sf", r |-> r, df |-> df]

\* the five values scipy.stats.linregress(x, y) computes from at least two
\* points whose x are not all equal
LinregressValues(x, y) ==
    IF \E i \in 1..Len(x) : x[i].k # "fin" \/ y[i].k # "fin"
    THEN <<NaN, NaN, NaN, NaN, NaN>>
    ELSE LET n == Len(x)
             ssxm == Cov(x, x)
             ssxym == Cov(x, y)
             ssym == Cov(y, y)
             r == IF ssym = Fin(0) THEN Fin(0)
                  ELSE SignedRoot(Sgn(ssxym),
                                  FDiv(FMul(ssxym, ssxym), FMul(ssxm, ssym)))
             r2 == IF ssym = Fin(0) THEN Fin(0)
                   ELSE FDiv(FMul(ssxym, ssxym), FMul(ssxm, ssym))
             slope == FDiv(ssxym, ssxm)
             intercept == FSub(np_mean(y), FMul(slope, np_mean(x)))
             prob == IF n = 2 THEN (IF y[1] = y[2] THEN Fin(1) ELSE Fin(0))
                     ELSE TTestP(r, n - 2)
             stderr == IF n = 2 THEN Fin(0)
                       ELSE FSqrt(FDiv(FDiv(FMul(FSub(Fin(1), r2), ssym), ssxm),
                                       Fin(n - 2)))
         IN  <<slope, intercept, r, prob, stderr>>

\* what linregress computes when the variance of x is 0 (one point, or all
\* x equal): r = 0 and a slope 0/0
LinregressDegenerate(x, y) ==
    IF \E i \in 1..Len(x) : x[i].k # "fin" \/ y[i].k # "fin"
    THEN <<NaN, NaN, NaN, NaN, NaN>>
    ELSE <<NaN, NaN, Fin(0), NaN, NaN>>

\* the outcomes of scipy.stats.linregress(x, y): it raises ValueError on empty
\* input; when all of two or more x are equal it raises ValueError or, in
\* library versions without that test, returns the degenerate values
linregress(x, y) ==
    IF Len(x) = 0 THEN {[ok |-> FALSE, exc |-> "ValueError"]}
    ELSE IF Len(x) = 1 THEN {[ok |-> TRUE, val |-> LinregressDegenerate(x, y)]}
    ELSE IF \A i \in 1..Len(x) : x[i] = x[1]
    THEN {[ok |-> FALSE, exc |-> "ValueError"],
          [ok |-> TRUE, val |-> LinregressDegenerate(x, y)]}
    ELSE {[ok |-> TRUE, val |-> LinregressValues(x, y)]}

\* numpy.exp of a float, kept symbolic except exp(0) = 1
np_exp(a) ==
    CASE a.k = "nan" -> NaN
      [] a.k = "pinf" -> PInf
      [] a.k = "ninf" -> Fin(0)
      [] OTHER -> IF a.n = 0 THEN Fin(1) ELSE [k |-> "exp", of |-> a]

\* what fit_power_law does with an outcome lr of linregress
FitPowerLawResult(lr) ==
    IF ~lr.ok THEN [pc |-> "raised", exc |-> lr.exc]
    ELSE [pc |-> "returned",
          result |-> <<lr.val[1], np_exp(lr.val[2]), lr.val[3],
                       lr.val[4], lr.val[5]>>]

\* the outcomes of fit_power_law(log_xs, log_ys)
fit_power_law(log_xs, log_ys) ==
    LET mask == NanMask(log_xs, log_ys)
        xs_ == Select(log_xs, mask)
        ys_ == Select(log_ys, mask)
    IN  {FitPowerLawResult(lr) : lr \in linregress(xs_, ys_)}

\* mask of fit_power_law_odr: neither nan, and both finite
FiniteMask(log_xs, log_ys) ==
    [i \in 1..Len(log_xs) |->
        /\ ~np_isnan(log_xs[i]) /\ ~np_isnan(log_ys[i])
        /\ np_isfinite(log_xs[i]) /\ np_isfinite(log_ys[i])]

\* out.beta of the orthogonal distance regression of y on x (at least two
\* points, not all x equal), started at linregress's lr.  With unit_exp the
\* model is x + p[0], whose best p[0] is mean(y - x); points on one line
\* are fitted by that line; for other data the minimiser is kept symbolic.
OdrBeta(x, y, lr, unit_exp) ==
    IF unit_exp
    THEN <<FSub(np_mean(y), np_mean(x))>>
    ELSE IF lr[3] \in {Fin(0), Fin(1), Fin(-1)} /\ (lr[3] = Fin(0) => Cov(y, y) = Fin(0))
    THEN <<lr[1], lr[2]>>
    ELSE <<[k |-> "odr_slope", x |-> x, y |-> y], [k |-> "odr_intercept", x |-> x, y |-> y]>>

\* scipy.stats.pearsonr(ys_, pred_ys)[0] for pred_ys = slope * xs_ + intercept,
\* given r, the correlation of xs_ and ys_
PearsonOfFit(x, y, slope, r) ==
    IF slope.k # "fin" THEN [k |-> "pearsonr", x |-> x, y |-> y]
    ELSE IF slope = Fin(0) \/ Cov(y, y) = Fin(0) THEN NaN
    ELSE IF slope.n > 0 THEN r
    ELSE IF r.k = "fin" THEN FNeg(r) ELSE [r EXCEPT !.sgn = -r.sgn]

\* what fit_power_law_odr does after linregress returned linreg on the
\* masked arrays.  When the variance of xs_ is 0 the start values are nan
\* and what follows depends on the library version: pearsonr raises
\* ValueError (one point) or the fit returns nan.
OdrResult(xs_, ys_, linreg, unit_exp) ==
    IF Len(xs_) = 1
    THEN {[pc |-> "raised", exc |-> "ValueError"],
          [pc |-> "returned", result |-> <<NaN, NaN, NaN>>]}
    ELSE IF \A i \in 1..Len(xs_) : xs_[i] = xs_[1]
    THEN {[pc |-> "returned", result |-> <<NaN, NaN, NaN>>]}
    ELSE LET beta == OdrBeta(xs_, ys_, linreg, unit_exp)
             slope == IF unit_exp THEN Fin(1) ELSE beta[1]
             intercept == IF unit_exp THEN beta[1] ELSE beta[2]
             r == PearsonOfFit(xs_, ys_, slope, linreg[3])
             prefactor == IF intercept.k = "odr_intercept"
                          THEN [k |-> "exp", of |-> intercept]
                          ELSE np_exp(intercept)
         IN  {[pc |-> "returned", result |-> <<slope, prefactor, r>>]}

\* the outcomes of fit_power_law_odr(log_xs, log_ys, unit_exp)
fit_power_law_odr(log_xs, log_ys, unit_exp) ==
    LET mask == FiniteMask(log_xs, log_ys)
        xs_ == Select(log_xs, mask)
        ys_ == Select(log_ys, mask)
    IN  UNION {IF ~linreg.ok THEN {[pc |-> "raised", exc |-> linreg.exc]}
               ELSE OdrResult(xs_, ys_, linreg.val, unit_exp) :
                 linreg \in linregress(xs_, ys_)}

FitInit ==
    \E len \in 0..MaxLen :
        \E log_xs \in [1..len -> LogXs], log_ys \in [1..len -> LogYs] :
            \/ fit = [pc |-> "called", fn |-> "fit_power_law",
                      args |-> [log_xs |-> log_xs, log_ys |-> log_ys, unit_exp |-> FALSE]]
            \/ \E unit_exp \in BOOLEAN :
                  fit = [pc |-> "called", fn |-> "fit_power_law_odr",
                         args |-> [log_xs |-> log_xs, log_ys |-> log_ys,
                                   unit_exp |-> unit_exp]]

\* a call of fit_power_law runs to its end
FitPowerLaw ==
    /\ fit.pc = "called" /\ fit.fn = "fit_power_law"
    /\ \E out \in fit_power_law(fit.args.log_xs, fit.args.log_ys) :
          fit' = [fn |-> fit.fn, args |-> fit.args] @@ out
    /\ UNCHANGED <<kin, comb, boot, plt>>

\* a call of fit_power_law_odr runs to its end
FitPowerLawOdr ==
    /\ fit.pc = "called" /\ fit.fn = "fit_power_law_odr"
    /\ \E out \in fit_power_law_odr(fit.args.log_xs, fit.args.log_ys, fit.args.unit_exp) :
          fit' = [fn |-> fit.fn, args |-> fit.args] @@ out
    /\ UNCHANGED <<kin, comb, boot, plt>>

(***************************************************************************)
(* power_laws.py: bootstrap_power_law_odr.                                 *)
(* boot is one call: its arguments, its locals (masked_xs, masked_ys, tot, *)
(* subset_size, the three lists, the arrays of the current round), the     *)
(* number i of rounds completed and where the call is (pc).                *)
(***************************************************************************)
\* the linear-scale value e^i
E(i) == np_exp(Fin(i))

\* numpy.log of a float
np_log(a) ==
    CASE a.k = "nan" -> NaN
      [] a.k = "pinf" -> PInf
      [] a.k = "ninf" -> NaN
      [] a.k = "exp" -> a.of
      [] a.k = "fin" /\ a.n < 0 -> NaN
      [] a.k = "fin" /\ a.n = 0 -> NInf
      [] a.k = "fin" /\ a.n = a.d -> Fin(0)
      [] OTHER -> [k |-> "log", of |-> a]

LogArr(a) == [j \in 1..Len(a) |-> np_log(a[j])]

\* the (x, y) pairs a caller may pass, in linear scale
BootPairs ==
    {<<Fin(1), Fin(1)>>, <<E(1), E(1)>>, <<E(1), PInf>>, <<NaN, Fin(1)>>}

\* fractions a caller may pass
Fractions == {Rat(1, 2), Rat(9, 10)}

\* the mask with the test of ys left out
BootMask_xs_only(xs, ys) == [j \in 1..Len(xs) |-> np_isfinite(xs[j])]

\* mask = np.isfinite(xs) & np.isfinite(ys)
BootMask(xs, ys) == [j \in 1..Len(xs) |-> np_isfinite(xs[j]) /\ np_isfinite(ys[j])]

\* np.sum(mask)
CountTrue(mask) == Cardinality({j \in 1..Len(mask) : mask[j]})

\* int(fraction * tot)
SubsetSizeOf(fraction, tot) == Floor(FMul(fraction, Fin(tot)))

\* the arrays numpy.random.choice(tot, size) may return: size draws from
\* 0..tot-1, with replacement
np_random_choice(tot, size) == [1..size -> 0..(tot - 1)]

\* a[idxs] for an array idxs of indices counted from 0
Take(a, idxs) == [j \in 1..Len(idxs) |-> a[idxs[j] + 1]]

\* a round that drops a fit whose exponent is nan instead of appending it
RoundAppend_skip_nan(b, res) ==
    IF np_isnan(res[1]) THEN [b EXCEPT !.i = @ + 1]
    ELSE [b EXCEPT !.exponents = Append(@, res[1]),
                   !.prefactors = Append(@, res[2]),
                   !.rs = Append(@, res[3]),
                   !.i = @ + 1]

\* the three appends that end a round
RoundAppend(b, res) ==
    [b EXCEPT !.exponents = Append(@, res[1]),
              !.prefactors = Append(@, res[2]),
              !.rs = Append(@, res[3]),
              !.i = @ + 1]

BootInit ==
    \E len \in 0..MaxPairs :
        \E ps \in [1..len -> BootPairs], fraction \in Fractions, rounds \in 0..MaxRounds :
            boot = [pc |-> "called",
                    args |-> [xs |-> [j \in 1..len |-> ps[j][1]],
                              ys |-> [j \in 1..len |-> ps[j][2]],
                              fraction |-> fraction, rounds |-> rounds],
                    masked_xs |-> <<>>, masked_ys |-> <<>>, tot |-> 0, subset_size |-> 0,
                    exponents |-> <<>>, prefactors |-> <<>>, rs |-> <<>>,
                    i |-> 0, idxs |-> <<>>, xs_sub |-> <<>>, ys_sub |-> <<>>,
                    exc |-> "none"]

\* the code before the loop: the mask, the masked arrays, the sizes, the lists
BootSetup ==
    /\ boot.pc = "called"
    /\ LET mask == BootMask(boot.args.xs, boot.args.ys)
       IN  boot' = [boot EXCEPT
                      !.pc = "loop",
                      !.masked_xs = Select(boot.args.xs, mask),
                      !.masked_ys = Select(boot.args.ys, mask),
                      !.tot = CountTrue(mask),
                      !.subset_size = SubsetSizeOf(boot.args.fraction, CountTrue(mask))]
    /\ UNCHANGED <<kin, comb, fit, plt>>

\* one iteration of the loop.  numpy.random.choice(0, 0) raises ValueError or
\* returns an empty array, on which the fit raises ValueError.
BootRound ==
    /\ boot.pc = "loop" /\ boot.i < boot.args.rounds
    /\ IF boot.tot = 0
       THEN boot' = [boot EXCEPT !.pc = "raised", !.exc = "ValueError"]
       ELSE \E idxs \in np_random_choice(boot.tot, boot.subset_size) :
              LET xs_sub == Take(boot.masked_xs, idxs)
                  ys_sub == Take(boot.masked_ys, idxs)
                  drawn == [boot EXCEPT !.idxs = idxs, !.xs_sub = xs_sub, !.ys_sub = ys_sub]
              IN  \E out \in fit_power_law_odr(LogArr(xs_sub), LogArr(ys_sub), FALSE) :
                     IF out.pc = "raised"
                     THEN boot' = [drawn EXCEPT !.pc = "raised", !.exc = out.exc]
                     ELSE boot' = RoundAppend(drawn, out.result)
    /\ UNCHANGED <<kin, comb, fit, plt>>

\* the return after the last round
BootReturn ==
    /\ boot.pc = "loop" /\ boot.i = boot.args.rounds
    /\ boot' = [boot EXCEPT !.pc = "returned"]
    /\ UNCHANGED <<kin, comb, fit, plt>>

\* the notebook calls one of the three fit entry points
InitFit ==
    /\ kin = KinIdle /\ comb = CombIdle /\ plt = PltIdle
    /\ \/ FitInit /\ boot = BootIdle
       \/ BootInit /\ fit = FitIdle
NextFit == FitPowerLaw \/ FitPowerLawOdr \/ BootSetup \/ BootRound \/ BootReturn
SpecFit == InitFit /\ [][NextFit]_vars

(***************************************************************************)
(* Claims about the fit entry points (checked under SpecFit).              *)
(***************************************************************************)
\* the positions of a fit call's arguments that hold no nan
FitValid(args) ==
    {i \in 1..Len(args.log_xs) : ~np_isnan(args.log_xs[i]) /\ ~np_isnan(args.log_ys[i])}

\* the positions of a fit call's arguments that hold two finite values
FitFinite(args) ==
    {i \in 1..Len(args.log_xs) : np_isfinite(args.log_xs[i]) /\ np_isfinite(args.log_ys[i])}

\* the positions of a bootstrap call's arguments that hold two finite values
BootFinite(args) ==
    {j \in 1..Len(args.xs) : np_isfinite(args.xs[j]) /\ np_isfinite(args.ys[j])}

\* the p-th smallest member of a set of integers
RECURSIVE Nth(_, _)
Nth(S, p) ==
    LET m == CHOOSE m \in S : \A q \in S : m <= q
    IN  IF p = 1 THEN m ELSE Nth(S \ {m}, p - 1)

\* 0 <= v <= 1 for a returned value v
InUnit(v) ==
    CASE v.k = "fin" -> FLe(Fin(0), v) /\ FLe(v, Fin(1))
      [] v.k = "sroot" -> v.sgn >= 0 /\ FLe(v.of, Fin(1))
      [] OTHER -> FALSE

\* the squared Pearson correlation of two arrays of rationals, 0 when a
\* variance is 0
PearsonR2(x, y) ==
    IF Cov(x, x) = Fin(0) \/ Cov(y, y) = Fin(0) THEN Fin(0)
    ELSE FDiv(FMul(Cov(x, y), Cov(x, y)), FMul(Cov(x, x), Cov(y, y)))

\* the positions of a fit call's arguments that hold two rationals
FitRational(args) ==
    {i \in 1..Len(args.log_xs) : args.log_xs[i].k = "fin" /\ args.log_ys[i].k = "fin"}

\* C4: with at least two finite pairs and any rounds >= 0, each completed
\* round has appended exactly one entry to each of the three lists, and the
\* three sequences returned have length rounds.
C4_LengthIsRounds ==
    (boot.pc # "idle" /\ Cardinality(BootFinite(boot.args)) >= 2) =>
        /\ Len(boot.exponents) = boot.i
        /\ Len(boot.prefactors) = boot.i
        /\ Len(boot.rs) = boot.i
        /\ boot.i <= boot.args.rounds
        /\ boot.pc = "returned" =>
              /\ Len(boot.exponents) = boot.args.rounds
              /\ Len(boot.prefactors) = boot.args.rounds
              /\ Len(boot.rs) = boot.args.rounds

C4_Witness ==
    /\ boot.pc = "returned" /\ Cardinality(BootFinite(boot.args)) >= 2
    /\ boot.args.rounds >= 2 /\ Len(boot.exponents) = boot.args.rounds
    /\ Len(boot.prefactors) = boot.args.rounds /\ Len(boot.rs) = boot.args.rounds
    /\ ~np_isnan(boot.exponents[2])

\* C5: every fit entry point signals an error (InsufficientDataError; here
\* any exception counts) on too little data: fit_power_law and
\* fit_power_law_odr when fewer than 2 valid pairs remain,
\* bootstrap_power_law_odr when n_valid < 2 or floor(fraction * n_valid) < 2,
\* and then before it runs any fit round.
C5_InsufficientData ==
    /\ (/\ fit.pc \in {"returned", "raised"} /\ fit.fn = "fit_power_law"
        /\ Cardinality(FitValid(fit.args)) < 2)
          => fit.pc = "raised"
    /\ (/\ fit.pc \in {"returned", "raised"} /\ fit.fn = "fit_power_law_odr"
        /\ Cardinality(FitFinite(fit.args)) < 2)
          => fit.pc = "raised"
    /\ (/\ boot.pc \in {"loop", "returned", "raised"}
        /\ \/ Cardinality(BootFinite(boot.args)) < 2
           \/ (boot.args.fraction.n * Cardinality(BootFinite(boot.args)))
                 \div boot.args.fraction.d < 2)
          => (boot.pc = "raised" /\ boot.i = 0 /\ boot.idxs = <<>>)

\* C8: the third value fit_power_law returns is the squared Pearson
\* correlation r2 of the masked log data, a value in [0, 1], also when the
\* fitted slope is negative.  (Stated for arguments that the mask leaves
\* at least two pairs of, none of them infinite.)
C8_ThirdIsR2 ==
    (/\ fit.pc = "returned" /\ fit.fn = "fit_power_law"
     /\ Cardinality(FitValid(fit.args)) >= 2
     /\ FitRational(fit.args) = FitValid(fit.args)) =>
        LET mask == NanMask(fit.args.log_xs, fit.args.log_ys)
        IN  /\ InUnit(fit.result[3])
            /\ fit.result[3] = PearsonR2(Select(fit.args.log_xs, mask),
                                         Select(fit.args.log_ys, mask))

\* C9: in every round the subsample has floor(fraction * n_valid) index
\* draws, fewer than n_valid; each index is in 0..n_valid-1 and selects that
\* position of the masked arrays, so every pair passed to the estimator is a
\* pair of the input whose x and y are both finite.  (That an index may be
\* drawn twice is what C9_Witness reaches.)
C9_Subsample ==
    (/\ boot.pc \in {"loop", "returned", "raised"}
     /\ boot.i >= 1 \/ (boot.pc = "raised" /\ boot.tot > 0)) =>
        LET valid == BootFinite(boot.args)
            n_valid == Cardinality(valid)
        IN  /\ Len(boot.idxs) = (boot.args.fraction.n * n_valid) \div boot.args.fraction.d
            /\ Len(boot.idxs) < n_valid
            /\ Len(boot.xs_sub) = Len(boot.idxs)
            /\ Len(boot.ys_sub) = Len(boot.idxs)
            /\ \A j \in 1..Len(boot.idxs) :
                  /\ boot.idxs[j] \in 0..(n_valid - 1)
                  /\ boot.xs_sub[j] = boot.args.xs[Nth(valid, boot.idxs[j] + 1)]
                  /\ boot.ys_sub[j] = boot.args.ys[Nth(valid, boot.idxs[j] + 1)]
                  /\ np_isfinite(boot.xs_sub[j]) /\ np_isfinite(boot.ys_sub[j])

C9_Witness ==
    /\ boot.pc = "loop" /\ boot.i >= 1
    /\ Cardinality(BootFinite(boot.args)) = 3
    /\ Len(boot.idxs) = 2 /\ boot.idxs[1] = boot.idxs[2]
    /\ boot.xs_sub = <<boot.args.xs[boot.idxs[1] + 1], boot.args.xs[boot.idxs[1] + 1]>>

(***************************************************************************)
(* power_laws.py: plot_bootstrapped_ci and plot_bootstrapped_range.        *)
(* plt is one call of either: the function (fn), its arguments, then the   *)
(* locals it computes from the bootstrap distributions.  The curves and    *)
(* histograms drawn from them are not part of the state.                   *)
(***************************************************************************)
\* values of a bootstrap distribution, and confidence levels a caller may pass
DistVals == {Fin(0), Fin(1), Fin(3)}
Levels == {Rat(1, 2), Rat(9, 10), Rat(19, 20)}

\* conf_range with the lower percentile first
ConfRangeCI_lower_first(ci) ==
    LET ci_end == FDiv(FSub(Fin(1), ci), Fin(2))
    IN  <<FMul(Fin(100), ci_end), FSub(Fin(100), FMul(Fin(100), ci_end))>>

\* conf_range of plot_bootstrapped_ci
ConfRangeCI(ci) ==
    LET ci_end == FDiv(FSub(Fin(1), ci), Fin(2))
    IN  <<FSub(Fin(100), FMul(Fin(100), ci_end)), FMul(Fin(100), ci_end)>>

\* the percentiles of plot_bootstrapped_range
ConfRangeRange == <<Rat(5, 2), Rat(195, 2)>>

plot_bootstrapped_ci(exponents, prefactors, ci) ==
    [pc |-> "returned", fn |-> "plot_bootstrapped_ci",
     args |-> [exponents |-> exponents, prefactors |-> prefactors, ci |-> ci],
     conf_range |-> ConfRangeCI(ci),
     pre_interval |-> np_percentile(prefactors, ConfRangeCI(ci)),
     exp_interval |-> np_percentile(exponents, ConfRangeCI(ci)),
     median_pre |-> np_median(prefactors),
     median_exp |-> np_median(exponents)]

plot_bootstrapped_range(exponents, prefactors) ==
    [pc |-> "returned", fn |-> "plot_bootstrapped_range",
     args |-> [exponents |-> exponents, prefactors |-> prefactors, ci |-> None],
     conf_range |-> ConfRangeRange,
     pre_interval |-> np_percentile(prefactors, ConfRangeRange),
     exp_interval |-> np_percentile(exponents, ConfRangeRange),
     mean_exp |-> np_mean(exponents), median_exp |-> np_median(exponents),
     std_exp |-> np_std(exponents),
     mean_pre |-> np_mean(prefactors), median_pre |-> np_median(prefactors),
     std_pre |-> np_std(prefactors)]

PltInit ==
    \E len \in 1..MaxDist :
        \E exponents \in [1..len -> DistVals], prefactors \in [1..len -> DistVals] :
            \/ \E ci \in Levels :
                  plt = [pc |-> "called", fn |-> "plot_bootstrapped_ci",
                         args |-> [exponents |-> exponents, prefactors |-> prefactors,
                                   ci |-> ci]]
            \/ plt = [pc |-> "called", fn |-> "plot_bootstrapped_range",
                      args |-> [exponents |-> exponents, prefactors |-> prefactors,
                                ci |-> None]]

PlotBootstrappedCI ==
    /\ plt.pc = "called" /\ plt.fn = "plot_bootstrapped_ci"
    /\ plt' = plot_bootstrapped_ci(plt.args.exponents, plt.args.prefactors, plt.args.ci)
    /\ UNCHANGED <<kin, comb, fit, boot>>

PlotBootstrappedRange ==
    /\ plt.pc = "called" /\ plt.fn = "plot_bootstrapped_range"
    /\ plt' = plot_bootstrapped_range(plt.args.exponents, plt.args.prefactors)
    /\ UNCHANGED <<kin, comb, fit, boot>>

\* the three places that derive an interval from a distribution
InitCI ==
    /\ comb = CombIdle /\ fit = FitIdle /\ boot = BootIdle
    /\ \/ PltInit /\ kin = KinIdle
       \/ KinInit /\ plt = PltIdle
NextCI == PlotBootstrappedCI \/ PlotBootstrappedRange \/ Infer
SpecCI == InitCI /\ [][NextCI]_vars

(***************************************************************************)
(* Claims about the confidence intervals (checked under SpecCI).           *)
(***************************************************************************)
\* the percentile points of a level: 100*(1-level)/2 and 100*(1-(1-level)/2)
LowPoint(level) == FMul(Fin(100), FDiv(FSub(Fin(1), level), Fin(2)))
HighPoint(level) == FMul(Fin(100), FSub(Fin(1), FDiv(FSub(Fin(1), level), Fin(2))))

\* a <= b for the two entries of an interval, when neither is nan
Ordered(a, b) == (np_isnan(a) \/ np_isnan(b)) \/ FLe(a, b)

\* the intervals of the record that are set
KinIntervals ==
    {ci \in {kin.kon_C_95CI, kin.vO_95CI, kin.kon_O_95CI} : ci # None}

\* C6 as stated: in every place that derives an interval the percentile
\* points are [100*(1-level)/2, 100*(1-(1-level)/2)], lower first, and the
\* interval is (low, high) with low <= high.
C6_LowerFirstEverywhere ==
    /\ (plt.pc = "returned" /\ plt.fn = "plot_bootstrapped_ci") =>
          /\ plt.conf_range = <<LowPoint(plt.args.ci), HighPoint(plt.args.ci)>>
          /\ Ordered(plt.pre_interval[1], plt.pre_interval[2])
          /\ Ordered(plt.exp_interval[1], plt.exp_interval[2])
    /\ (plt.pc = "returned" /\ plt.fn = "plot_bootstrapped_range") =>
          /\ plt.conf_range = <<LowPoint(Rat(19, 20)), HighPoint(Rat(19, 20))>>
          /\ Ordered(plt.pre_interval[1], plt.pre_interval[2])
          /\ Ordered(plt.exp_interval[1], plt.exp_interval[2])
    /\ kin.call = "returned" => \A ci \in KinIntervals : Ordered(ci.v[1], ci.v[2])

\* C6 as amended: plot_bootstrapped_range and infer take the percentiles
\* [2.5, 97.5], lower first, and get (low, high) with low <= high;
\* plot_bootstrapped_ci takes the same two points of the level upper first,
\* [100 - 100*(1-ci)/2, 100*(1-ci)/2], and gets (high, low) with
\* first >= second.
C6_UpperFirstInPlotCI ==
    /\ (plt.pc = "returned" /\ plt.fn = "plot_bootstrapped_ci") =>
          /\ plt.conf_range = <<HighPoint(plt.args.ci), LowPoint(plt.args.ci)>>
          /\ FLt(plt.conf_range[2], plt.conf_range[1])
          /\ Ordered(plt.pre_interval[2], plt.pre_interval[1])
          /\ Ordered(plt.exp_interval[2], plt.exp_interval[1])
    /\ (plt.pc = "returned" /\ plt.fn = "plot_bootstrapped_range") =>
          /\ plt.conf_range = <<Rat(5, 2), Rat(195, 2)>>
          /\ Ordered(plt.pre_interval[1], plt.pre_interval[2])
          /\ Ordered(plt.exp_interval[1], plt.exp_interval[2])
    /\ kin.call = "returned" => \A ci \in KinIntervals : Ordered(ci.v[1], ci.v[2])

C6_Witness ==
    /\ plt.pc = "returned" /\ plt.fn = "plot_bootstrapped_ci"
    /\ plt.args.ci = Rat(19, 20)
    /\ plt.conf_range = <<Rat(195, 2), Rat(5, 2)>>
    /\ FLt(plt.exp_interval[2], plt.exp_interval[1])

====
